---- MODULE Spec2Model ----
(***************************************************************************)
(* A model of vdsct.py, the ctypes binding to ViconDataStreamSDK_C.        *)
(*                                                                         *)
(* The module holds four specifications over one set of variables:         *)
(*   SpecTranslate  assert_success applied to an integer result code       *)
(*   SpecLoad       threads calling so() / load_library                    *)
(*   SpecClient     one Client object: __init__, the accessors, destroy    *)
(*   SpecIter       Client.iter_segments against a latched frame           *)
(* The native library is the environment: what it returns is drawn from    *)
(* small sets (SpecClient) or computed from a latched frame (SpecIter).    *)
(***************************************************************************)
EXTENDS Integers, Sequences, FiniteSets, TLC

VARIABLES
    \* SpecTranslate
    code, tpc, outcome,
    \* SpecLoad
    _so, libs, applied, exported, resolvable, lpc, lk, got, lexc,
    \* SpecClient
    born, _client_p, call, nDestroyCalls, nNativeDestroy, crashed,
    \* SpecIter
    connected, latched, frame, changed, gen

tvars == <<code, tpc, outcome>>
lvars == <<_so, libs, applied, exported, resolvable, lpc, lk, got, lexc>>
cvars == <<born, _client_p, call, nDestroyCalls, nNativeDestroy, crashed>>
ivars == <<connected, latched, frame, changed, gen>>
vars == <<tvars, lvars, cvars, ivars>>

(***************************************************************************)
(* Python values                                                           *)
(***************************************************************************)
\* Python's None as an object reference: the value of _so before the load, of
\* _client_p after destroy, and what a c_void_p result is for a NULL pointer.
\* Library objects and native pointers are numbered from 1.
None == 0

\* A call that returns normally raises nothing.
NoException == "NoException"

(***************************************************************************)
(* The result table and assert_success                                     *)
(***************************************************************************)
\* SUCCESS_CODE = 2
SUCCESS_CODE == 2

\* The list RESULTS: the exception class at each ordinal of the CEnum.
RESULTS_Short ==
    << "Unknown", "NotImplemented", "Success", "InvalidHostName",
       "InvalidMulticastIP", "ClientAlreadyConnected", "ClientConnectionFailed",
       "ServerAlreadyTransmittingMulticast", "ServerNotTransmittingMulticast",
       "NotConnected", "NoFrame", "InvalidIndex", "InvalidCameraName",
       "InvalidSubjectName", "InvalidSegmentName", "InvalidMarkerName",
       "InvalidDeviceName", "InvalidDeviceOutputName",
       "InvalidLatencySampleName", "CoLinearAxes", "LeftHandedAxes",
       "HapticAlreadySet", "EarlyDataRequested", "LateDataRequested",
       "InvalidOperation", "NotSupported", "ConfigurationFailed" >>

RESULTS ==
    << "Unknown", "NotImplemented", "Success", "InvalidHostName",
       "InvalidMulticastIP", "ClientAlreadyConnected", "ClientConnectionFailed",
       "ServerAlreadyTransmittingMulticast", "ServerNotTransmittingMulticast",
       "NotConnected", "NoFrame", "InvalidIndex", "InvalidCameraName",
       "InvalidSubjectName", "InvalidSegmentName", "InvalidMarkerName",
       "InvalidDeviceName", "InvalidDeviceOutputName",
       "InvalidLatencySampleName", "CoLinearAxes", "LeftHandedAxes",
       "HapticAlreadySet", "EarlyDataRequested", "LateDataRequested",
       "InvalidOperation", "NotSupported", "ConfigurationFailed",
       "NotPresent" >>

\* The ordinals of the result table.
TableOrdinals == 0 .. (Len(RESULTS) - 1)

\* The ordinal of a named kind.
OrdinalOf(kind) == CHOOSE k \in TableOrdinals : RESULTS[k + 1] = kind

\* Python list indexing, seq[k]: k counts from 0, a negative k counts from the
\* end, and anything else raises IndexError.
PyIndex(seq, k) ==
    IF k >= 0 /\ k < Len(seq) THEN seq[k + 1]
    ELSE IF k < 0 /\ k >= -Len(seq) THEN seq[Len(seq) + k + 1]
    ELSE "IndexError"

\* assert_success with the comparison dropped: every code raises.
assert_success_NoCheck(c) == PyIndex(RESULTS, c)

\* assert_success(code): NoException when it returns, else the name of what it raises.
assert_success(c) ==
    IF c # SUCCESS_CODE THEN PyIndex(RESULTS, c) ELSE NoException

(***************************************************************************)
(* The library file and the threads that use the singleton                 *)
(***************************************************************************)
\* The threads that call so().
Threads == {"t1", "t2"}

\* The attribute assignments of load_library, in order: the native symbol each
\* one looks up on _so.
ConfigSymbol ==
    << "Client_Create", "Client_Connect", "Client_Destroy", "Client_Destroy",
       "Client_GetFrame", "Client_GetSubjectCount", "Client_GetSubjectName",
       "Client_GetSegmentCount", "Client_GetSegmentName",
       "Client_GetSegmentGlobalTranslation",
       "Client_GetSegmentGlobalTranslation",
       "Client_GetSegmentGlobalRotationQuaternion",
       "Client_GetSegmentGlobalRotationQuaternion" >>

NConfig == Len(ConfigSymbol)

AllSymbols == {ConfigSymbol[k] : k \in 1 .. NConfig}

\* A library object is fully configured when every assignment was made on it.
FullyConfigured(lib) == libs[lib] = 1 .. NConfig

\* The library file the process finds: it may not resolve at all, and when it
\* does it exports every symbol or lacks one of them.
LibraryFiles ==
    {[resolvable |-> FALSE, exported |-> {}]}
    \cup {[resolvable |-> TRUE, exported |-> AllSymbols]}
    \cup {[resolvable |-> TRUE, exported |-> AllSymbols \ {s}] : s \in AllSymbols}

(***************************************************************************)
(* The state each part of the program is in while another one is followed  *)
(***************************************************************************)
\* The record of the call in progress or last made on the Client object.
NoCall ==
    [op |-> "none", given |-> << >>, index |-> 0, fn |-> "none",
     ptr |-> None, handed |-> << >>, invoked |-> 0, stage |-> "done",
     code |-> SUCCESS_CODE, written |-> << >>, exc |-> NoException,
     returned |-> FALSE, value |-> << >>]

\* No Client object exists.
ClientIdle ==
    /\ born = FALSE
    /\ _client_p = None
    /\ call = NoCall
    /\ nDestroyCalls = 0
    /\ nNativeDestroy = 0
    /\ crashed = FALSE

\* No generator of iter_segments exists.
NoGen ==
    [pc |-> "none", nsubj |-> 0, i |-> 0, subj |-> << >>, nseg |-> 0, j |-> 0,
     exc |-> NoException, yielded |-> << >>,
     nSubjectCountQueries |-> 0, nSegmentCountQueries |-> 0, nSubjectNames |-> 0]

\* The handle is not connected, no frame is latched, nothing iterates.
IterIdle ==
    /\ connected = FALSE
    /\ latched = FALSE
    /\ frame = << >>
    /\ changed = FALSE
    /\ gen = NoGen

\* No result code is being translated.
TransIdle == code = 0 /\ tpc = "idle" /\ outcome = "pending"

\* The singleton as the module leaves it at import: _so = None, nothing loaded.
LoadIdle ==
    /\ _so = None
    /\ libs = << >>
    /\ applied = [k \in 1 .. NConfig |-> 0]
    /\ exported = AllSymbols
    /\ resolvable = TRUE
    /\ lpc = [t \in Threads |-> "idle"]
    /\ lk = [t \in Threads |-> 0]
    /\ got = [t \in Threads |-> "nothing"]
    /\ lexc = [t \in Threads |-> NoException]

\* The singleton after one so() call loaded and bound the library: what a
\* Client that exists has behind it.
LibraryBound ==
    /\ _so = 1
    /\ libs = <<1 .. NConfig>>
    /\ applied = [k \in 1 .. NConfig |-> 1]
    /\ exported = AllSymbols
    /\ resolvable = TRUE
    /\ lpc = [t \in Threads |-> "idle"]
    /\ lk = [t \in Threads |-> 0]
    /\ got = [t \in Threads |-> "nothing"]
    /\ lexc = [t \in Threads |-> NoException]

(***************************************************************************)
(* Values that cross the ctypes boundary                                   *)
(***************************************************************************)
\* A Python str is a sequence of code points, a bytes object a sequence of
\* byte values.
Str(cps) == [form |-> "str", data |-> cps]

Bytes(bs) == [form |-> "bytes", data |-> bs]

\* UTF-8, the encoding str.encode() uses by default, for code points below 2048.
RECURSIVE utf8(_)
utf8(cps) ==
    IF cps = << >> THEN << >>
    ELSE LET c == Head(cps)
         IN  (IF c < 128 THEN <<c>>
              ELSE <<192 + (c \div 64), 128 + (c % 64)>>) \o utf8(Tail(cps))

\* `if isinstance(x, str): x = x.encode()`
EncodeIfStr(x) == IF x.form = "str" THEN Bytes(utf8(x.data)) ELSE x

\* ctypes converts an argument declared c_char_p from bytes; a str is refused
\* with ctypes.ArgumentError before the foreign function runs.
CharPAccepts(x) == x.form = "bytes"

\* name.value of a zero-filled ctypes string buffer the native side wrote w
\* into: the bytes before the first NUL.
RECURSIVE CStringValue(_)
CStringValue(w) ==
    IF w = << >> \/ Head(w) = 0 THEN << >>
    ELSE <<Head(w)>> \o CStringValue(Tail(w))

\* The hosts and names callers pass: text with and without a non-ASCII code
\* point, and a bytes object.
TextArgs == {Str(<<65>>), Str(<<233, 66>>), Bytes(<<65>>)}

\* The indexes callers pass.
IndexArgs == {0, 1}

\* The result codes the native side reports: every ordinal of the table, and
\* one on each side of it.
NativeCodes == (-1) .. Len(RESULTS)

\* What the native side writes: a count, a name buffer, a translation with its
\* occlusion flag, a rotation.
NativeCounts == {<<0>>, <<2>>}

NativeNames == {<<83>>, <<83, 0, 88>>}

NativeTranslations == {<<1, 2, 3, 0>>, <<0, 0, 0, 1>>}

NativeRotations == {<<0, 0, 0, 1>>}

(***************************************************************************)
(* The Client object                                                       *)
(***************************************************************************)
\* Calls of destroy() followed in one behaviour.
MaxDestroy == 3

\* The one valid pointer Client_Create returns.
ValidPointer == 1

\* A Client object exists and nothing was called on it yet.
ClientLive ==
    /\ born = TRUE
    /\ _client_p = ValidPointer
    /\ call = NoCall
    /\ nDestroyCalls = 0
    /\ nNativeDestroy = 0
    /\ crashed = FALSE

\* A new call can be made: the process is alive and the last call is over.
Ready == ~crashed /\ call.stage = "done"

\* Client.__init__ / _client_create: so().Client_Create() returns a pointer,
\* None for NULL, and `assert client_p` refuses a null one.
Client__init__ ==
    /\ Ready
    /\ ~born
    /\ \E p \in {None, ValidPointer} :
        IF p # None
        THEN /\ born' = TRUE
             /\ _client_p' = p
             /\ call' = [NoCall EXCEPT !.op = "__init__", !.fn = "Client_Create",
                                       !.invoked = 1, !.returned = TRUE]
        ELSE /\ call' = [NoCall EXCEPT !.op = "__init__", !.fn = "Client_Create",
                                       !.invoked = 1, !.exc = "AssertionError"]
             /\ UNCHANGED <<born, _client_p>>
    /\ UNCHANGED <<nDestroyCalls, nNativeDestroy, crashed>>
    /\ UNCHANGED <<tvars, lvars, ivars>>

\* _client_destroy without its `if client:` test.
_client_destroy_Unguarded(client) == nNativeDestroy' = nNativeDestroy + 1

\* _client_destroy(client): Client_Destroy is called only on a true pointer.
_client_destroy(client) ==
    IF client # None
    THEN nNativeDestroy' = nNativeDestroy + 1
    ELSE UNCHANGED nNativeDestroy

\* Client.destroy: _client_destroy(self._client_p), then self._client_p = None.
destroy ==
    /\ Ready
    /\ born
    /\ nDestroyCalls < MaxDestroy
    /\ _client_destroy(_client_p)
    /\ _client_p' = None
    /\ nDestroyCalls' = nDestroyCalls + 1
    /\ call' = [NoCall EXCEPT !.op = "destroy", !.ptr = _client_p,
                              !.fn = "Client_Destroy",
                              !.invoked = IF nNativeDestroy' = nNativeDestroy THEN 0 ELSE 1,
                              !.returned = TRUE]
    /\ UNCHANGED <<born, crashed>>
    /\ UNCHANGED <<tvars, lvars, ivars>>

\* so().<fn>(client_p, ...): ctypes converts the arguments, refusing a str for
\* a c_char_p, and then runs the native function, whose answer is awaited.
ForeignCall(op, fn, ptr, given, index, handed) ==
    IF \A a \in 1 .. Len(handed) : CharPAccepts(handed[a])
    THEN [NoCall EXCEPT !.op = op, !.given = given, !.index = index,
                        !.fn = fn, !.ptr = ptr, !.handed = handed,
                        !.invoked = 1, !.stage = "native"]
    ELSE [NoCall EXCEPT !.op = op, !.given = given, !.index = index,
                        !.fn = fn, !.ptr = ptr, !.handed = handed,
                        !.exc = "ArgumentError"]

\* What a low-level call makes of the native answer: assert_success on the
\* result code, and the value only when that raises nothing.
Answer(r, value) ==
    LET e == assert_success(r)
    IN  [exc |-> e, returned |-> e = NoException,
         value |-> IF e = NoException THEN value ELSE << >>]

\* _client_connect and _client_getframe return nothing.
_client_connect_result(r) == Answer(r, << >>)

_client_getframe_result(r) == Answer(r, << >>)

\* return out.SubjectCount / out.SegmentCount
_client_getsubjectcount_result(r, out) == Answer(r, out)

_client_getsegmentcount_result(r, out) == Answer(r, out)

\* return name.value
_client_getsubjectname_result(r, name) == Answer(r, CStringValue(name))

_client_getsegmentname_result(r, name) == Answer(r, CStringValue(name))

\* return out.Translation, out.Occluded
_client_getsegmentglobaltranslation_result(r, out) == Answer(r, out)

\* return out.Rotation
_client_getsegmentglobalrotationquaternion_result(r, out) == Answer(r, out)

\* The native function returned code r having written w; the low-level call
\* finishes with answer a.
NativeReturn(r, w, a) ==
    [call EXCEPT !.stage = "done", !.code = r, !.written = w,
                 !.exc = a.exc, !.returned = a.returned, !.value = a.value]

\* The native function of accessor op is running.
InNative(op) == ~crashed /\ call.stage = "native" /\ call.op = op

\* Client.connect(host) -> _client_connect
connect ==
    /\ Ready /\ born
    /\ \E host \in TextArgs :
        call' = ForeignCall("connect", "Client_Connect", _client_p,
                            <<host>>, 0, <<EncodeIfStr(host)>>)
    /\ UNCHANGED <<born, _client_p, nDestroyCalls, nNativeDestroy, crashed>>
    /\ UNCHANGED <<tvars, lvars, ivars>>

connect_return ==
    /\ InNative("connect")
    /\ \E r \in NativeCodes :
        call' = NativeReturn(r, << >>, _client_connect_result(r))
    /\ UNCHANGED <<born, _client_p, nDestroyCalls, nNativeDestroy, crashed>>
    /\ UNCHANGED <<tvars, lvars, ivars>>

\* Client.get_frame() -> _client_getframe
get_frame ==
    /\ Ready /\ born
    /\ call' = ForeignCall("get_frame", "Client_GetFrame", _client_p,
                           << >>, 0, << >>)
    /\ UNCHANGED <<born, _client_p, nDestroyCalls, nNativeDestroy, crashed>>
    /\ UNCHANGED <<tvars, lvars, ivars>>

get_frame_return ==
    /\ InNative("get_frame")
    /\ \E r \in NativeCodes :
        call' = NativeReturn(r, << >>, _client_getframe_result(r))
    /\ UNCHANGED <<born, _client_p, nDestroyCalls, nNativeDestroy, crashed>>
    /\ UNCHANGED <<tvars, lvars, ivars>>

\* Client.get_subject_count() -> _client_getsubjectcount
get_subject_count ==
    /\ Ready /\ born
    /\ call' = ForeignCall("get_subject_count", "Client_GetSubjectCount",
                           _client_p, << >>, 0, << >>)
    /\ UNCHANGED <<born, _client_p, nDestroyCalls, nNativeDestroy, crashed>>
    /\ UNCHANGED <<tvars, lvars, ivars>>

get_subject_count_return ==
    /\ InNative("get_subject_count")
    /\ \E r \in NativeCodes, out \in NativeCounts :
        call' = NativeReturn(r, out, _client_getsubjectcount_result(r, out))
    /\ UNCHANGED <<born, _client_p, nDestroyCalls, nNativeDestroy, crashed>>
    /\ UNCHANGED <<tvars, lvars, ivars>>

\* Client.get_subject_name(index) -> _client_getsubjectname
get_subject_name ==
    /\ Ready /\ born
    /\ \E index \in IndexArgs :
        call' = ForeignCall("get_subject_name", "Client_GetSubjectName",
                            _client_p, << >>, index, << >>)
    /\ UNCHANGED <<born, _client_p, nDestroyCalls, nNativeDestroy, crashed>>
    /\ UNCHANGED <<tvars, lvars, ivars>>

get_subject_name_return ==
    /\ InNative("get_subject_name")
    /\ \E r \in NativeCodes, name \in NativeNames :
        call' = NativeReturn(r, name, _client_getsubjectname_result(r, name))
    /\ UNCHANGED <<born, _client_p, nDestroyCalls, nNativeDestroy, crashed>>
    /\ UNCHANGED <<tvars, lvars, ivars>>

\* Client.get_segment_count(subject) -> _client_getsegmentcount
get_segment_count ==
    /\ Ready /\ born
    /\ \E subject \in TextArgs :
        call' = ForeignCall("get_segment_count", "Client_GetSegmentCount",
                            _client_p, <<subject>>, 0, <<EncodeIfStr(subject)>>)
    /\ UNCHANGED <<born, _client_p, nDestroyCalls, nNativeDestroy, crashed>>
    /\ UNCHANGED <<tvars, lvars, ivars>>

get_segment_count_return ==
    /\ InNative("get_segment_count")
    /\ \E r \in NativeCodes, out \in NativeCounts :
        call' = NativeReturn(r, out, _client_getsegmentcount_result(r, out))
    /\ UNCHANGED <<born, _client_p, nDestroyCalls, nNativeDestroy, crashed>>
    /\ UNCHANGED <<tvars, lvars, ivars>>

\* Client.get_segment_name(subject, index) -> _client_getsegmentname: the
\* subject goes to the foreign function as it was given.
get_segment_name ==
    /\ Ready /\ born
    /\ \E subject \in TextArgs, index \in IndexArgs :
        call' = ForeignCall("get_segment_name", "Client_GetSegmentName",
                            _client_p, <<subject>>, index, <<subject>>)
    /\ UNCHANGED <<born, _client_p, nDestroyCalls, nNativeDestroy, crashed>>
    /\ UNCHANGED <<tvars, lvars, ivars>>

get_segment_name_return ==
    /\ InNative("get_segment_name")
    /\ \E r \in NativeCodes, name \in NativeNames :
        call' = NativeReturn(r, name, _client_getsegmentname_result(r, name))
    /\ UNCHANGED <<born, _client_p, nDestroyCalls, nNativeDestroy, crashed>>
    /\ UNCHANGED <<tvars, lvars, ivars>>

\* Client.get_segment_translation -> _client_getsegmentglobaltranslation
get_segment_translation ==
    /\ Ready /\ born
    /\ \E subject \in TextArgs, segment \in TextArgs :
        call' = ForeignCall("get_segment_translation",
                            "Client_GetSegmentGlobalTranslation", _client_p,
                            <<subject, segment>>, 0,
                            <<EncodeIfStr(subject), EncodeIfStr(segment)>>)
    /\ UNCHANGED <<born, _client_p, nDestroyCalls, nNativeDestroy, crashed>>
    /\ UNCHANGED <<tvars, lvars, ivars>>

get_segment_translation_return ==
    /\ InNative("get_segment_translation")
    /\ \E r \in NativeCodes, out \in NativeTranslations :
        call' = NativeReturn(r, out,
                             _client_getsegmentglobaltranslation_result(r, out))
    /\ UNCHANGED <<born, _client_p, nDestroyCalls, nNativeDestroy, crashed>>
    /\ UNCHANGED <<tvars, lvars, ivars>>

\* Client.get_segment_rotation_quaternion
\*   -> _client_getsegmentglobalrotationquaternion
get_segment_rotation_quaternion ==
    /\ Ready /\ born
    /\ \E subject \in TextArgs, segment \in TextArgs :
        call' = ForeignCall("get_segment_rotation_quaternion",
                            "Client_GetSegmentGlobalRotationQuaternion", _client_p,
                            <<subject, segment>>, 0,
                            <<EncodeIfStr(subject), EncodeIfStr(segment)>>)
    /\ UNCHANGED <<born, _client_p, nDestroyCalls, nNativeDestroy, crashed>>
    /\ UNCHANGED <<tvars, lvars, ivars>>

get_segment_rotation_quaternion_return ==
    /\ InNative("get_segment_rotation_quaternion")
    /\ \E r \in NativeCodes, out \in NativeRotations :
        call' = NativeReturn(r, out,
                             _client_getsegmentglobalrotationquaternion_result(r, out))
    /\ UNCHANGED <<born, _client_p, nDestroyCalls, nNativeDestroy, crashed>>
    /\ UNCHANGED <<tvars, lvars, ivars>>

\* A native function handed a null client pointer has no defined behaviour:
\* it may return any code (the return actions) or bring the process down.
NativeCrash ==
    /\ ~crashed
    /\ call.stage = "native"
    /\ call.ptr = None
    /\ crashed' = TRUE
    /\ call' = [call EXCEPT !.stage = "crashed"]
    /\ UNCHANGED <<born, _client_p, nDestroyCalls, nNativeDestroy>>
    /\ UNCHANGED <<tvars, lvars, ivars>>

InitClient ==
    /\ ClientIdle
    /\ TransIdle
    /\ LibraryBound
    /\ IterIdle

NextClient ==
    \/ Client__init__
    \/ destroy
    \/ connect
    \/ connect_return
    \/ get_frame
    \/ get_frame_return
    \/ get_subject_count
    \/ get_subject_count_return
    \/ get_subject_name
    \/ get_subject_name_return
    \/ get_segment_count
    \/ get_segment_count_return
    \/ get_segment_name
    \/ get_segment_name_return
    \/ get_segment_translation
    \/ get_segment_translation_return
    \/ get_segment_rotation_quaternion
    \/ get_segment_rotation_quaternion_return
    \/ NativeCrash

SpecClient == InitClient /\ [][NextClient]_vars

(***************************************************************************)
(* SpecClient: the claims about one Client object                          *)
(***************************************************************************)
\* The accessors: the data-access operations of a Client.
Accessors ==
    {"connect", "get_frame", "get_subject_count", "get_subject_name",
     "get_segment_count", "get_segment_name", "get_segment_translation",
     "get_segment_rotation_quaternion"}

\* The operations that take a host or a subject or segment name.
TextOps ==
    {"connect", "get_segment_count", "get_segment_name",
     "get_segment_translation", "get_segment_rotation_quaternion"}

\* C1: however many times destroy() is called, the native Client_Destroy runs
\* at most once for the handle's pointer, destroy() raises nothing, and from
\* the first destroy() on the handle's pointer is null.
C1_DestroyOnce ==
    /\ nNativeDestroy <= 1
    /\ nDestroyCalls >= 1 => _client_p = None
    /\ call.op = "destroy" => (call.exc = NoException /\ call.returned)

\* destroy() was called again on a destroyed handle.
C1_Witness == nDestroyCalls >= 2 /\ nNativeDestroy = 1 /\ call.op = "destroy"

\* C2: no accessor ever runs its native function with a null client pointer:
\* after destroy() the binding itself rejects the call.
C2_NoNativeCallOnNull ==
    (call.op \in Accessors /\ call.invoked >= 1) => call.ptr # None

\* The bytes of a buffer before its first NUL.
UpToNul(w) ==
    LET z == {n \in 1 .. Len(w) : w[n] = 0}
    IN  IF z = {} THEN w
        ELSE SubSeq(w, 1, (CHOOSE n \in z : \A m \in z : n <= m) - 1)

\* The value an accessor returns on success, from what the native call wrote.
WrittenValue(c) ==
    IF c.op \in {"connect", "get_frame"} THEN << >>
    ELSE IF c.op \in {"get_subject_name", "get_segment_name"} THEN UpToNul(c.written)
    ELSE c.written

\* C7: an accessor whose native call reported a result code ran that native
\* function once; for a code k of the table other than success it raised the
\* kind at ordinal k and returned no value, and for the success code it raised
\* nothing and returned the value the native call wrote.
C7_AccessorOutcome ==
    (call.op \in Accessors /\ call.stage = "done" /\ call.invoked >= 1) =>
        /\ call.invoked = 1
        /\ (call.code \in TableOrdinals /\ call.code # SUCCESS_CODE) =>
            /\ call.exc = RESULTS[call.code + 1]
            /\ ~call.returned
            /\ call.value = << >>
        /\ call.code = SUCCESS_CODE =>
            /\ call.exc = NoException
            /\ call.returned
            /\ call.value = WrittenValue(call)

\* A name query whose native call reported InvalidIndex raised InvalidIndex.
C7_Witness ==
    /\ call.stage = "done"
    /\ call.op = "get_segment_name"
    /\ call.invoked = 1
    /\ call.code = OrdinalOf("InvalidIndex")
    /\ call.exc = "InvalidIndex"
    /\ ~call.returned

\* C8: an operation given a host or name as text hands the foreign function
\* the encoded bytes, never the text.
C8_TextEncodedAtBoundary ==
    call.op \in TextOps =>
        /\ \A a \in 1 .. Len(call.handed) : call.handed[a].form = "bytes"
        /\ \A a \in 1 .. Len(call.given) :
            call.given[a].form = "str" =>
                (call.invoked = 1 /\ call.handed[a].data = utf8(call.given[a].data))

(***************************************************************************)
(* load_library and so(): the library singleton                            *)
(***************************************************************************)
InitLoad ==
    /\ _so = None
    /\ libs = << >>
    /\ applied = [k \in 1 .. NConfig |-> 0]
    /\ \E f \in LibraryFiles : exported = f.exported /\ resolvable = f.resolvable
    /\ lpc = [t \in Threads |-> "idle"]
    /\ lk = [t \in Threads |-> 0]
    /\ got = [t \in Threads |-> "nothing"]
    /\ lexc = [t \in Threads |-> NoException]
    /\ TransIdle
    /\ ClientIdle
    /\ IterIdle

\* A thread calls so(): it is about to evaluate `_so is None`.
so_call(t) ==
    /\ lpc[t] \in {"idle", "done", "raised"}
    /\ lpc' = [lpc EXCEPT ![t] = "check"]
    /\ lexc' = [lexc EXCEPT ![t] = NoException]
    /\ UNCHANGED <<_so, libs, applied, exported, resolvable, lk, got>>
    /\ UNCHANGED <<tvars, cvars, ivars>>

\* so(), `if _so is None`: the test alone, with no lock around it and the call
\* to load_library.
so_check(t) ==
    /\ lpc[t] = "check"
    /\ lpc' = [lpc EXCEPT ![t] = IF _so = None THEN "load" ELSE "ret"]
    /\ UNCHANGED <<_so, libs, applied, exported, resolvable, lk, got, lexc>>
    /\ UNCHANGED <<tvars, cvars, ivars>>

\* load_library, `_so = ctypes.cdll.LoadLibrary(path)`: a new library object,
\* with nothing configured, is stored in the global at once; an unresolvable
\* library raises OSError and leaves _so as it was.
load_library_load(t) ==
    /\ lpc[t] = "load"
    /\ IF resolvable
       THEN /\ libs' = Append(libs, {})
            /\ _so' = Len(libs) + 1
            /\ lk' = [lk EXCEPT ![t] = 1]
            /\ lpc' = [lpc EXCEPT ![t] = "cfg"]
            /\ UNCHANGED lexc
       ELSE /\ lexc' = [lexc EXCEPT ![t] = "OSError"]
            /\ lpc' = [lpc EXCEPT ![t] = "raised"]
            /\ UNCHANGED <<_so, libs, lk>>
    /\ UNCHANGED <<applied, exported, resolvable, got>>
    /\ UNCHANGED <<tvars, cvars, ivars>>

\* load_library, one `_so.<symbol>.<attr> = ...`: it reads the global _so, looks
\* the symbol up (AttributeError when the library lacks it, raised out of
\* load_library with _so still set) and sets the attribute on that object.
load_library_configure(t) ==
    /\ lpc[t] = "cfg"
    /\ IF ConfigSymbol[lk[t]] \in exported
       THEN /\ libs' = [libs EXCEPT ![_so] = @ \cup {lk[t]}]
            /\ applied' = [applied EXCEPT ![lk[t]] = @ + 1]
            /\ lk' = [lk EXCEPT ![t] = IF @ = NConfig THEN 0 ELSE @ + 1]
            /\ lpc' = [lpc EXCEPT ![t] = IF lk[t] = NConfig THEN "ret" ELSE "cfg"]
            /\ UNCHANGED lexc
       ELSE /\ lexc' = [lexc EXCEPT ![t] = "AttributeError"]
            /\ lpc' = [lpc EXCEPT ![t] = "raised"]
            /\ lk' = [lk EXCEPT ![t] = 0]
            /\ UNCHANGED <<libs, applied>>
    /\ UNCHANGED <<_so, exported, resolvable, got>>
    /\ UNCHANGED <<tvars, cvars, ivars>>

\* so(), `return _so`: the caller obtains whatever the global holds now.
so_return(t) ==
    /\ lpc[t] = "ret"
    /\ got' = [got EXCEPT ![t] = IF FullyConfigured(_so) THEN "full" ELSE "partial"]
    /\ lpc' = [lpc EXCEPT ![t] = "done"]
    /\ UNCHANGED <<_so, libs, applied, exported, resolvable, lk, lexc>>
    /\ UNCHANGED <<tvars, cvars, ivars>>

NextLoad ==
    \E t \in Threads :
        \/ so_call(t)
        \/ so_check(t)
        \/ load_library_load(t)
        \/ load_library_configure(t)
        \/ so_return(t)

SpecLoad == InitLoad /\ [][NextLoad]_vars

\* No thread is between the first and the last statement of load_library.
NoLoadInProgress == \A t \in Threads : lpc[t] \notin {"load", "cfg"}

\* C6: however the threads that call so() interleave, the library is loaded at
\* most once, no signature assignment is made twice, and no thread is returned
\* a library whose signatures are not all configured.
C6_LoadAndBindOnce ==
    /\ Len(libs) <= 1
    /\ \A k \in 1 .. NConfig : applied[k] <= 1
    /\ \A t \in Threads : got[t] # "partial"

\* C9: outside a running load_library the singleton is unset or a library with
\* every signature configured; a failed load leaves it unset.
C9_NoPartialBinding ==
    NoLoadInProgress => (_so = None \/ FullyConfigured(_so))

(***************************************************************************)
(* The native library's latched frame, as spec.md 4.3 describes it         *)
(***************************************************************************)
\* Subjects in a frame, and segments of a subject, at most.
MaxSubjects == 2

MaxSegments == 2

\* A frame gives each of its subjects, in index order, a number of segments.
Frames == UNION {[1 .. n -> 0 .. MaxSegments] : n \in 0 .. MaxSubjects}

\* The name of the subject at an index, and of the segment at an index: "S1",
\* "S2", ... and "s0", "s1", ...
SubjectName(i) == <<83, 49 + i>>

SegmentName(j) == <<115, 48 + j>>

\* The result of a data query that needs a connection and a latched frame.
Native_Precondition ==
    IF ~connected THEN OrdinalOf("NotConnected")
    ELSE IF ~latched THEN OrdinalOf("NoFrame")
    ELSE SUCCESS_CODE

\* The indexes of the latched frame's subject with a name.
SubjectsNamed(name) ==
    {i \in 0 .. (Len(frame) - 1) : SubjectName(i) = name.data}

Native_GetSubjectCount ==
    LET r == Native_Precondition
    IN  [Result |-> r, out |-> IF r = SUCCESS_CODE THEN <<Len(frame)>> ELSE <<0>>]

Native_GetSubjectName(index) ==
    LET r == Native_Precondition
    IN  IF r # SUCCESS_CODE THEN [Result |-> r, out |-> << >>]
        ELSE IF index < 0 \/ index >= Len(frame)
        THEN [Result |-> OrdinalOf("InvalidIndex"), out |-> << >>]
        ELSE [Result |-> r, out |-> SubjectName(index) \o <<0>>]

Native_GetSegmentCount(subject) ==
    LET r == Native_Precondition
    IN  IF r # SUCCESS_CODE THEN [Result |-> r, out |-> <<0>>]
        ELSE IF SubjectsNamed(subject) = {}
        THEN [Result |-> OrdinalOf("InvalidSubjectName"), out |-> <<0>>]
        ELSE [Result |-> r,
              out |-> <<frame[(CHOOSE i \in SubjectsNamed(subject) : TRUE) + 1]>>]

Native_GetSegmentName(subject, index) ==
    LET r == Native_Precondition
    IN  IF r # SUCCESS_CODE THEN [Result |-> r, out |-> << >>]
        ELSE IF SubjectsNamed(subject) = {}
        THEN [Result |-> OrdinalOf("InvalidSubjectName"), out |-> << >>]
        ELSE IF index < 0
                \/ index >= frame[(CHOOSE i \in SubjectsNamed(subject) : TRUE) + 1]
        THEN [Result |-> OrdinalOf("InvalidIndex"), out |-> << >>]
        ELSE [Result |-> r, out |-> SegmentName(index) \o <<0>>]

(***************************************************************************)
(* Client.iter_segments                                                    *)
(***************************************************************************)
\* What a failed ctypes argument conversion makes of a call.
ArgumentError == [exc |-> "ArgumentError", returned |-> FALSE, value |-> << >>]

\* The accessors iter_segments calls, each a whole call against the latched
\* frame.
Call_get_subject_count ==
    LET n == Native_GetSubjectCount
    IN  _client_getsubjectcount_result(n.Result, n.out)

Call_get_subject_name(index) ==
    LET n == Native_GetSubjectName(index)
    IN  _client_getsubjectname_result(n.Result, n.out)

Call_get_segment_count(subject) ==
    LET s == EncodeIfStr(subject)
        n == Native_GetSegmentCount(s)
    IN  IF CharPAccepts(s)
        THEN _client_getsegmentcount_result(n.Result, n.out)
        ELSE ArgumentError

Call_get_segment_name(subject, index) ==
    LET n == Native_GetSegmentName(subject, index)
    IN  IF CharPAccepts(subject)
        THEN _client_getsegmentname_result(n.Result, n.out)
        ELSE ArgumentError

\* An exception leaves the generator: it is finished and yields no more.
GenRaise(g, e) == [g EXCEPT !.pc = "raised", !.exc = e]

\* `for i in range(nsubj)`, at index i.
ForSubject(g, i) ==
    IF i < g.nsubj THEN [g EXCEPT !.i = i, !.pc = "L53"]
    ELSE [g EXCEPT !.pc = "done"]

\* `for j in range(nseg)` stopping one index early.
ForSegment_SkipsLast(g, j) ==
    IF j + 1 < g.nseg THEN [g EXCEPT !.j = j, !.pc = "L56"]
    ELSE ForSubject(g, g.i + 1)

\* `for j in range(nseg)`, at index j; when it ends, the subject loop goes on.
ForSegment(g, j) ==
    IF j < g.nseg THEN [g EXCEPT !.j = j, !.pc = "L56"]
    ELSE ForSubject(g, g.i + 1)

\* nsubj = self.get_subject_count()
iter_segments_L51(g) ==
    LET a == Call_get_subject_count
        q == [g EXCEPT !.nSubjectCountQueries = @ + 1]
    IN  IF a.returned THEN ForSubject([q EXCEPT !.nsubj = a.value[1]], 0)
        ELSE GenRaise(q, a.exc)

\* subj = self.get_subject_name(i), with a failure taken for the end.
iter_segments_L53_Swallows(g) ==
    LET a == Call_get_subject_name(g.i)
    IN  IF a.returned
        THEN [g EXCEPT !.subj = a.value, !.pc = "L54", !.nSubjectNames = @ + 1]
        ELSE [g EXCEPT !.pc = "done"]

\* subj = self.get_subject_name(i)
iter_segments_L53(g) ==
    LET a == Call_get_subject_name(g.i)
    IN  IF a.returned
        THEN [g EXCEPT !.subj = a.value, !.pc = "L54", !.nSubjectNames = @ + 1]
        ELSE GenRaise(g, a.exc)

\* nseg = self.get_segment_count(subj)
iter_segments_L54(g) ==
    LET a == Call_get_segment_count(Bytes(g.subj))
        q == [g EXCEPT !.nSegmentCountQueries = @ + 1]
    IN  IF a.returned THEN ForSegment([q EXCEPT !.nseg = a.value[1]], 0)
        ELSE GenRaise(q, a.exc)

\* seg = self.get_segment_name(subj, j); yield (subj, seg)
iter_segments_L56(g) ==
    LET a == Call_get_segment_name(Bytes(g.subj), g.j)
    IN  IF a.returned
        THEN ForSegment([g EXCEPT !.yielded = Append(@, <<g.subj, a.value>>)],
                        g.j + 1)
        ELSE GenRaise(g, a.exc)

\* Client.iter_segments(): a generator that has not run yet.
iter_segments ==
    /\ gen.pc = "none"
    /\ gen' = [NoGen EXCEPT !.pc = "L51"]
    /\ UNCHANGED <<connected, latched, frame, changed>>
    /\ UNCHANGED <<tvars, lvars, cvars>>

\* The generator runs its next accessor call.
next_L51 ==
    /\ gen.pc = "L51"
    /\ gen' = iter_segments_L51(gen)
    /\ changed' = FALSE
    /\ UNCHANGED <<connected, latched, frame>>
    /\ UNCHANGED <<tvars, lvars, cvars>>

next_L53 ==
    /\ gen.pc = "L53"
    /\ gen' = iter_segments_L53(gen)
    /\ UNCHANGED <<connected, latched, frame, changed>>
    /\ UNCHANGED <<tvars, lvars, cvars>>

next_L54 ==
    /\ gen.pc = "L54"
    /\ gen' = iter_segments_L54(gen)
    /\ UNCHANGED <<connected, latched, frame, changed>>
    /\ UNCHANGED <<tvars, lvars, cvars>>

next_L56 ==
    /\ gen.pc = "L56"
    /\ gen' = iter_segments_L56(gen)
    /\ UNCHANGED <<connected, latched, frame, changed>>
    /\ UNCHANGED <<tvars, lvars, cvars>>

\* Client.connect, whole: the server accepts the connection or not.
connect_server ==
    /\ ~connected
    /\ \E r \in {SUCCESS_CODE, OrdinalOf("ClientConnectionFailed")} :
        connected' = (_client_connect_result(r).returned)
    /\ UNCHANGED <<latched, frame, changed, gen>>
    /\ UNCHANGED <<tvars, lvars, cvars>>

\* Client.get_frame, whole, on a connected handle: the native side latches
\* the server's current sample. `changed` remembers that the latched data
\* differed at some time since the generator's subject-count query.
latch_frame ==
    /\ connected
    /\ \E f \in Frames :
        /\ _client_getframe_result(SUCCESS_CODE).returned
        /\ frame' = f
        /\ latched' = TRUE
        /\ changed' = (changed \/ (gen.pc \notin {"none", "L51"}
                                   /\ (~latched \/ f # frame)))
    /\ UNCHANGED <<connected, gen>>
    /\ UNCHANGED <<tvars, lvars, cvars>>

InitIter ==
    /\ IterIdle
    /\ TransIdle
    /\ LibraryBound
    /\ ClientLive

NextIter ==
    \/ connect_server
    \/ latch_frame
    \/ iter_segments
    \/ next_L51
    \/ next_L53
    \/ next_L54
    \/ next_L56

SpecIter == InitIter /\ [][NextIter]_vars

\* The pairs of a frame in subject-index-then-segment-index order.
RECURSIVE PairsFrom(_, _, _)
PairsFrom(f, i, j) ==
    IF i >= Len(f) THEN << >>
    ELSE IF j >= f[i + 1] THEN PairsFrom(f, i + 1, 0)
    ELSE <<<<SubjectName(i), SegmentName(j)>>>> \o PairsFrom(f, i, j + 1)

IsPrefix(a, b) == Len(a) <= Len(b) /\ a = SubSeq(b, 1, Len(a))

\* The generator has made its subject-count query on a connected handle whose
\* latched frame has not changed since.
StableIteration ==
    connected /\ latched /\ ~changed /\ gen.pc \notin {"none", "L51"}

\* C5: on a connected handle whose frame does not change during the iteration,
\* iter_segments raises nothing, has at every moment yielded a prefix of the
\* frame's (subject, segment) pairs in subject-then-segment index order, and
\* when it ends it has yielded all of them, each once.
C5_IterYieldsAllPairs ==
    StableIteration =>
        /\ gen.pc # "raised"
        /\ IsPrefix(gen.yielded, PairsFrom(frame, 0, 0))
        /\ gen.pc = "done" => gen.yielded = PairsFrom(frame, 0, 0)

\* A finished stable iteration over {S1: 2 segments, S2: 0 segments}.
C5_Witness ==
    /\ StableIteration
    /\ gen.pc = "done"
    /\ frame = <<2, 0>>
    /\ gen.yielded = << <<SubjectName(0), SegmentName(0)>>,
                        <<SubjectName(0), SegmentName(1)>> >>

\* The generator's next indexed name query asks for an index the latched
\* frame no longer has: a subject index at or past the subject count, or a
\* segment index at or past the segment count of a subject still in the frame.
IndexOutOfRange ==
    /\ connected /\ latched
    /\ \/ gen.pc = "L53" /\ gen.i >= Len(frame)
       \/ /\ gen.pc = "L56"
          /\ \E i \in SubjectsNamed(Bytes(gen.subj)) : gen.j >= frame[i + 1]

\* The count queries of one iteration: the subject count exactly once, before
\* any pair, and the segment count once for each subject name fetched, as the
\* very next query after it.
CountQueriesOnce ==
    /\ gen.nSubjectCountQueries <= 1
    /\ gen.pc \notin {"none", "L51"} => gen.nSubjectCountQueries = 1
    /\ gen.yielded # << >> => gen.nSubjectCountQueries = 1
    /\ gen.nSegmentCountQueries =
           IF gen.pc = "L54" THEN gen.nSubjectNames - 1 ELSE gen.nSubjectNames

\* C10: iter_segments is no snapshot. It queries the subject count once, before
\* the first pair, and the segment count once per subject right after that
\* subject's name; an indexed name query whose index a get_frame in between has
\* put out of range raises InvalidIndex out of the iteration at that step,
\* leaving the pairs already yielded as they are; and a generator that raised
\* yields nothing more.
C10_NotASnapshot ==
    /\ []CountQueriesOnce
    /\ [][(gen' # gen /\ IndexOutOfRange) =>
            /\ gen'.pc = "raised"
            /\ gen'.exc = "InvalidIndex"
            /\ gen'.yielded = gen.yielded]_vars
    /\ [][gen.pc = "raised" => gen' = gen]_vars

\* An iteration that had yielded a pair was cut short by InvalidIndex after the
\* frame changed under it.
C10_Witness ==
    /\ gen.pc = "raised"
    /\ gen.exc = "InvalidIndex"
    /\ changed
    /\ gen.yielded # << >>

(***************************************************************************)
(* SpecTranslate: assert_success on one result code                        *)
(***************************************************************************)
\* Result codes tried are -CodeSpan .. CodeSpan.
CodeSpan == 40

Codes == (-CodeSpan) .. CodeSpan

InitTranslate ==
    /\ code \in Codes
    /\ tpc = "call"
    /\ outcome = "pending"
    /\ LoadIdle
    /\ ClientIdle
    /\ IterIdle

Translate ==
    /\ tpc = "call"
    /\ outcome' = assert_success(code)
    /\ tpc' = "done"
    /\ UNCHANGED <<code, lvars, cvars, ivars>>

NextTranslate == Translate

SpecTranslate == InitTranslate /\ [][NextTranslate]_vars

\* C3: a result code outside the table (negative, or at or above its length)
\* makes assert_success fail with a lookup error (IndexError), never with one of
\* the named kinds and never with success.
C3_OutOfTableFatal ==
    (tpc = "done" /\ code \notin TableOrdinals) => outcome = "IndexError"

\* C4 as stated: the table's ordinals are 0..26, so the first ordinal after 26
\* and every later one has no entry.
C4_TableIs0To26 ==
    (tpc = "done" /\ code > 26) => outcome = "IndexError"

\* C4 amended: the table is a bijection between the ordinals 0..27 and the
\* named kinds: 28 entries, no kind at two ordinals, no entry at 28 or above;
\* translating an ordinal in range never fails with a lookup error and raises
\* the kind at that ordinal, and translating SUCCESS_CODE raises nothing.
C4_TableBijection ==
    /\ Len(RESULTS) = 28
    /\ \A a, b \in 1 .. Len(RESULTS) : RESULTS[a] = RESULTS[b] => a = b
    /\ RESULTS[SUCCESS_CODE + 1] = "Success"
    /\ tpc = "done" =>
        /\ code \in 0 .. 27 => outcome # "IndexError"
        /\ (code \in 0 .. 27 /\ code # SUCCESS_CODE) => outcome = RESULTS[code + 1]
        /\ code = SUCCESS_CODE => outcome = NoException
        /\ code > 27 => outcome = "IndexError"

C4_Witness == tpc = "done" /\ code = 27 /\ outcome = "NotPresent"

====
